---- MODULE Spec2Model ----
(***************************************************************************)
(* CamFlix recommendation core: the Rating, UserSimilarity and             *)
(* Recommendation tables and the handlers and Celery tasks that read and   *)
(* write them (apps/ratings, apps/recommendations), with the comment likes *)
(* of apps/movies and the review reactions of apps/ratings.                *)
(*                                                                         *)
(* Tables are sets of row records.  Scores are integers 0..100.  A         *)
(* similarity value is kept exactly: the Pearson branch value              *)
(* (r + 1) / 2 with r = sgn * sqrt(num / den), the fallback branch value   *)
(* num / den; both fractions are in lowest terms.  Floating-point rounding *)
(* of numpy/scipy is not modelled.  Time is counted in days.               *)
(***************************************************************************)
EXTENDS Integers, Sequences, FiniteSets, TLC

\* ---------------------------------------------------------------- bounds
NumUsers == 3
NumMovies == 5
MaxRate == 1
MaxDays == 30
TickDays == 30
MaxHistory == 20
TopExtra == 2
NumComments == 2
NumReviews == 1
MaxReq == 3

\* ------------------------------------------------------ program constants
MinCommonMovies == 3
ScoreMax == 100
TopSimilar == 20
MinScore == 70
MinCoRaters == 2
BatchSize == 50
RetentionDays == 30
ForYouMinCount == 5
ForYouLimit == 24
ForYouRecs == 12

Users == 1..NumUsers
Movies == 1..NumMovies
\* ids that name no row: User.objects.get / get_object_or_404 fail on them
UserIds == Users \cup {NumUsers + 1}
MovieIds == Movies \cup {NumMovies + 1}

Comments == 1..NumComments
CommentIds == Comments \cup {NumComments + 1}
Reviews == 1..NumReviews

VARIABLES ratings, sims, recs, now, nRate, lastOp, workers,
          likes, reactions, reviews, requests, nReq

\* the comment likes, the review reactions with the counters of the reviews, and
\* the requests that are writing a reaction
social == <<likes, reactions, reviews, requests, nReq>>

vars == <<ratings, sims, recs, now, nRate, lastOp, workers, social>>

\* ------------------------------------------------------------- arithmetic
Abs(i) == IF i < 0 THEN -i ELSE i

Sign(i) == IF i < 0 THEN -1 ELSE IF i = 0 THEN 0 ELSE 1

RECURSIVE Gcd(_, _)
Gcd(a, b) == IF b = 0 THEN a ELSE Gcd(b, a % b)

RECURSIVE SumF(_, _)
SumF(f, S) ==
    IF S = {} THEN 0
    ELSE LET x == CHOOSE y \in S : TRUE
         IN  f[x] + SumF(f, S \ {x})

\* ------------------------------------------------------ similarity values
NoValue == [kind |-> "none", sgn |-> 0, num |-> 0, den |-> 1]

\* num / den in lowest terms, den > 0
Ratio(n, d) ==
    LET g == Gcd(Abs(n), d)
    IN  [kind |-> "ratio", sgn |-> Sign(n), num |-> n \div g, den |-> d \div g]

Zero == Ratio(0, 1)

One == Ratio(1, 1)

\* v < 0 and v > 1 for a similarity value
Lt0(v) == IF v.kind = "pearson" THEN v.sgn = -1 /\ v.num > v.den ELSE v.num < 0

Gt1(v) == IF v.kind = "pearson" THEN v.sgn = 1 /\ v.num > v.den ELSE v.num > v.den

In01(v) == v.kind \in {"pearson", "ratio"} /\ ~Lt0(v) /\ ~Gt1(v)

\* max(0, min(1, similarity_score))
Clamp01(v) == IF Gt1(v) THEN One ELSE IF Lt0(v) THEN Zero ELSE v

\* ---------------------------------------------------------------- ratings
UserRows(rs, u) == {r \in rs : r.user = u}

RatedMovies(rs, u) == {r.movie : r \in UserRows(rs, u)}

\* dict(Rating.objects.filter(user=u).values_list('movie_id', 'score'))
ScoreDict(rs, u) ==
    LET rows == UserRows(rs, u)
    IN  [m \in {r.movie : r \in rows} |-> (CHOOSE r \in rows : r.movie = m).score]

calculate_tier_upper(rs, u, s) ==
    LET rows  == UserRows(rs, u)
        total == Cardinality(rows)
        below == Cardinality({r \in rows : r.score < s})
    IN  IF total = 0 THEN "decent"
        ELSE IF below * 100 <= 10 * total THEN "terrible"
        ELSE IF below * 100 <= 30 * total THEN "bad"
        ELSE IF below * 100 <= 50 * total THEN "mediocre"
        ELSE IF below * 100 <= 70 * total THEN "decent"
        ELSE IF below * 100 <= 85 * total THEN "good"
        ELSE IF below * 100 <= 95 * total THEN "great"
        ELSE "superb"

calculate_tier_above(rs, u, s) ==
    LET rows  == UserRows(rs, u)
        total == Cardinality(rows)
        below == Cardinality({r \in rows : r.score > s})
    IN  IF total = 0 THEN "decent"
        ELSE IF below * 100 < 10 * total THEN "terrible"
        ELSE IF below * 100 < 30 * total THEN "bad"
        ELSE IF below * 100 < 50 * total THEN "mediocre"
        ELSE IF below * 100 < 70 * total THEN "decent"
        ELSE IF below * 100 < 85 * total THEN "good"
        ELSE IF below * 100 < 95 * total THEN "great"
        ELSE "superb"

\* Rating.calculate_tier for a rating of user u with score s, against the rows
\* stored in rs
calculate_tier(rs, u, s) ==
    LET rows  == UserRows(rs, u)
        total == Cardinality(rows)
        below == Cardinality({r \in rows : r.score < s})
    IN  IF total = 0 THEN "decent"
        ELSE IF below * 100 < 10 * total THEN "terrible"
        ELSE IF below * 100 < 30 * total THEN "bad"
        ELSE IF below * 100 < 50 * total THEN "mediocre"
        ELSE IF below * 100 < 70 * total THEN "decent"
        ELSE IF below * 100 < 85 * total THEN "good"
        ELSE IF below * 100 < 95 * total THEN "great"
        ELSE "superb"

\* Rating.save(): the tier is recomputed from the stored rows, then the row is
\* written (inserted, or replacing the row with the same primary key)
RatingSave(rs, row) ==
    LET saved == [row EXCEPT !.tier = calculate_tier(rs, row.user, row.score)]
    IN  {r \in rs : ~(r.user = row.user /\ r.movie = row.movie)} \cup {saved}

\* the fixed-threshold tier rate_movie assigns before its second save
ViewTier(s) ==
    IF s < 20 THEN "terrible"
    ELSE IF s < 40 THEN "bad"
    ELSE IF s < 55 THEN "mediocre"
    ELSE IF s < 70 THEN "decent"
    ELSE IF s < 85 THEN "good"
    ELSE IF s < 95 THEN "great"
    ELSE "superb"

RateRowsKeepViewTier(rs, u, m, s) ==
    LET old   == {r \in rs : r.user = u /\ r.movie = m}
        fresh == [user |-> u, movie |-> m, score |-> s, tier |-> ""]
        row0  == IF old = {} THEN fresh
                 ELSE [(CHOOSE r \in old : TRUE) EXCEPT !.score = s]
        rs1   == RatingSave(rs, row0)
        row1  == CHOOSE r \in rs1 : r.user = u /\ r.movie = m
        row2  == [row1 EXCEPT !.tier = ViewTier(s)]
    IN  (rs1 \ {row1}) \cup {row2}

\* the POST branch of rate_movie for a valid score: update_or_create (one save),
\* the fixed-threshold tier, and the second save
RateRows(rs, u, m, s) ==
    LET old   == {r \in rs : r.user = u /\ r.movie = m}
        fresh == [user |-> u, movie |-> m, score |-> s, tier |-> ""]
        row0  == IF old = {} THEN fresh
                 ELSE [(CHOOSE r \in old : TRUE) EXCEPT !.score = s]
        rs1   == RatingSave(rs, row0)
        row1  == CHOOSE r \in rs1 : r.user = u /\ r.movie = m
        row2  == [row1 EXCEPT !.tier = ViewTier(s)]
    IN  RatingSave(rs1, row2)

\* ------------------------------------------------------------- similarity
CommonMovies(rs, x, y) == RatedMovies(rs, x) \cap RatedMovies(rs, y)

EnoughCommonAtTwo(common) == Cardinality(common) >= MinCommonMovies - 1

EnoughCommon(common) == Cardinality(common) >= MinCommonMovies

Distinct(d, common) == Cardinality({d[m] : m \in common})

UsePearsonEither(d1, d2, common) == Distinct(d1, common) > 1 \/ Distinct(d2, common) > 1

\* the branch test: both score lists hold more than one distinct value
UsePearson(d1, d2, common) == Distinct(d1, common) > 1 /\ Distinct(d2, common) > 1

\* (pearsonr(scores1, scores2) + 1) / 2, with
\*   r = cov / sqrt(vx * vy),  cov = n*Sxy - Sx*Sy,  vx = n*Sxx - Sx^2
PearsonSimilarity(d1, d2, common) ==
    LET n   == Cardinality(common)
        sx  == SumF(d1, common)
        sy  == SumF(d2, common)
        sxy == SumF([m \in common |-> d1[m] * d2[m]], common)
        sxx == SumF([m \in common |-> d1[m] * d1[m]], common)
        syy == SumF([m \in common |-> d2[m] * d2[m]], common)
        cov == n * sxy - sx * sy
        vx  == n * sxx - sx * sx
        vy  == n * syy - sy * sy
        c   == Abs(cov)
        g1  == Gcd(c, vx)
        g2  == Gcd(c, vy)
        a1  == c \div g1
        b1  == vx \div g1
        a2  == c \div g2
        b2  == vy \div g2
        h1  == Gcd(a1, b2)
        h2  == Gcd(a2, b1)
    IN  IF cov = 0 THEN [kind |-> "pearson", sgn |-> 0, num |-> 0, den |-> 1]
        ELSE [kind |-> "pearson", sgn |-> Sign(cov),
              num |-> (a1 \div h1) * (a2 \div h2),
              den |-> (b1 \div h2) * (b2 \div h1)]

\* 1 - mean(|scores1 - scores2|) / 100
FallbackSignedSimilarity(d1, d2, common) ==
    LET n == Cardinality(common)
        s == SumF([m \in common |-> d1[m] - d2[m]], common)
    IN  Ratio(ScoreMax * n - s, ScoreMax * n)

FallbackTenthSimilarity(d1, d2, common) ==
    LET n == Cardinality(common)
        s == SumF([m \in common |-> Abs(d1[m] - d2[m])], common)
    IN  Ratio(10 * n - s, 10 * n)

FallbackSimilarity(d1, d2, common) ==
    LET n == Cardinality(common)
        s == SumF([m \in common |-> Abs(d1[m] - d2[m])], common)
    IN  Ratio(ScoreMax * n - s, ScoreMax * n)

\* similarity_score as calculate_user_similarity computes it (lines 68-80)
SimilarityScore(rs, x, y) ==
    LET d1     == ScoreDict(rs, x)
        d2     == ScoreDict(rs, y)
        common == DOMAIN d1 \cap DOMAIN d2
    IN  IF UsePearson(d1, d2, common)
        THEN PearsonSimilarity(d1, d2, common)
        ELSE FallbackSimilarity(d1, d2, common)

\* the lookup key of update_or_create: user1 = the smaller id when the ids differ
SimKey(x, y) == IF x < y THEN <<x, y>> ELSE <<y, x>>

\* UserSimilarity.save(): swap when user1.id > user2.id
SimSave(row) ==
    IF row.user1 > row.user2
    THEN [row EXCEPT !.user1 = row.user2, !.user2 = row.user1]
    ELSE row

\* UserSimilarity.objects.update_or_create(user1=, user2=, defaults=)
SimUpsert(table, key, score, count) ==
    LET old == {r \in table : r.user1 = key[1] /\ r.user2 = key[2]}
        row == [user1 |-> key[1], user2 |-> key[2],
                similarity_score |-> score,
                common_movies_count |-> count,
                calculation_method |-> "pearson"]
    IN  (table \ old) \cup {SimSave(row)}

\* what calculate_user_similarity(x, y) does on the ratings rs: whether it
\* writes, and the row it writes
SimilarityOutcome(rs, x, y) ==
    LET common == CommonMovies(rs, x, y)
    IN  IF EnoughCommon(common)
        THEN [write |-> TRUE, key |-> SimKey(x, y),
              score |-> Clamp01(SimilarityScore(rs, x, y)),
              count |-> Cardinality(common)]
        ELSE [write |-> FALSE, key |-> <<x, y>>, score |-> NoValue, count |-> 0]

NoOp == [op |-> "none", args |-> <<>>, status |-> "none", ret |-> NoValue,
         movies |-> {}, created |-> 0, list |-> <<>>, rerun |-> FALSE,
         failed |-> {}, similar |-> {}, calls |-> <<>>, reaction |-> "none"]

\* the Celery workers that run tasks side by side, and a worker that runs none
Workers == {1, 2}

IdleWorker == [task |-> "none", pc |-> "idle", args |-> <<>>, key |-> <<>>,
               score |-> NoValue, count |-> 0, seq |-> <<>>, conf |-> <<>>,
               pos |-> 0, status |-> "none", error |-> "none"]

\* the processes that serve requests side by side, and a process serving none
Procs == {1, 2}

\* likes_count and dislikes_count of a Review: IntegerField(default=0)
NoCounters == [likes_count |-> 0, dislikes_count |-> 0]

IdleRequest == [op |-> "none", pc |-> "idle", user |-> 0, review |-> 0,
                reaction_type |-> "none", is_new |-> FALSE,
                old_reaction |-> "none", counters |-> NoCounters]

\* no comment like, no reaction, every counter at its default, no request
InitSocial ==
    /\ likes = {}
    /\ reactions = {}
    /\ reviews = [rv \in Reviews |-> NoCounters]
    /\ requests = [p \in Procs |-> IdleRequest]
    /\ nReq = 0

\* calculate_user_similarity(user1_id, user2_id): every exception is caught and
\* turned into a None result
CalculateUserSimilarity(x, y) ==
    LET o    == SimilarityOutcome(ratings, x, y)
        base == [NoOp EXCEPT !.op = "calculate_user_similarity", !.args = <<x, y>>]
    IN  /\ IF x \notin Users \/ y \notin Users
           THEN /\ lastOp' = [base EXCEPT !.status = "caught"]
                /\ UNCHANGED sims
           ELSE IF ~o.write
           THEN /\ lastOp' = [base EXCEPT !.status = "ok"]
                /\ UNCHANGED sims
           ELSE /\ sims' = SimUpsert(sims, o.key, o.score, o.count)
                /\ lastOp' = [base EXCEPT !.status = "ok",
                                          !.ret = SimilarityScore(ratings, x, y)]
        /\ UNCHANGED <<ratings, recs, now, nRate, workers, social>>

\* calculate_all_user_similarities(): every pair users[i], users[j], i < j, of
\* the users that have a rating, in the order the query returns them
Raters(rs) == {u \in Users : UserRows(rs, u) # {}}

Orderings(S) ==
    {f \in [1..Cardinality(S) -> S] : \A i, j \in DOMAIN f : i # j => f[i] # f[j]}

\* one more call of calculate_user_similarity on the users x and y
CallMade(calls, x, y) ==
    LET k == SimKey(x, y)
    IN  [q \in DOMAIN calls \cup {k} |->
           (IF q \in DOMAIN calls THEN calls[q] ELSE 0) + (IF q = k THEN 1 ELSE 0)]

RECURSIVE BatchFoldSquare(_, _, _, _)
BatchFoldSquare(outcome, order, pos, acc) ==
    LET n == Len(order)
        i == pos[1]
        j == pos[2]
        o == outcome[<<order[i], order[j]>>]
        next == IF j < n THEN <<i, j + 1>> ELSE <<i + 1, 1>>
    IN  IF i > n THEN acc
        ELSE IF i = j \/ j > n THEN BatchFoldSquare(outcome, order, next, acc)
        ELSE IF o.write
        THEN BatchFoldSquare(outcome, order, next,
                 [table |-> SimUpsert(acc.table, o.key, o.score, o.count),
                  count |-> acc.count + 1,
                  calls |-> CallMade(acc.calls, order[i], order[j])])
        ELSE BatchFoldSquare(outcome, order, next,
                 [acc EXCEPT !.calls = CallMade(acc.calls, order[i], order[j])])

RECURSIVE BatchFold(_, _, _, _)
\* the table, the count and the calls made after the pairs of `order` from
\* position <<i, j>> on; outcome[<<x, y>>] is SimilarityOutcome of the pair
BatchFold(outcome, order, pos, acc) ==
    LET n == Len(order)
        i == pos[1]
        j == pos[2]
        o == outcome[<<order[i], order[j]>>]
        next == IF j < n THEN <<i, j + 1>> ELSE <<i + 1, i + 2>>
    IN  IF i >= n THEN acc
        ELSE IF o.write
        THEN BatchFold(outcome, order, next,
                 [table |-> SimUpsert(acc.table, o.key, o.score, o.count),
                  count |-> acc.count + 1,
                  calls |-> CallMade(acc.calls, order[i], order[j])])
        ELSE BatchFold(outcome, order, next,
                 [acc EXCEPT !.calls = CallMade(acc.calls, order[i], order[j])])

CalculateAllUserSimilarities ==
    LET raters  == Raters(ratings)
        outcome == [p \in {q \in raters \X raters : q[1] # q[2]} |->
                      SimilarityOutcome(ratings, p[1], p[2])]
    IN  \E order \in Orderings(raters) :
          LET res == BatchFold(outcome, order, <<1, 2>>,
                               [table |-> sims, count |-> 0, calls |-> <<>>])
          IN  /\ sims' = res.table
              /\ lastOp' = [NoOp EXCEPT !.op = "calculate_all_user_similarities",
                                        !.status = "ok", !.created = res.count,
                                        !.calls = res.calls]
              /\ UNCHANGED <<ratings, recs, now, nRate, workers, social>>

\* ------------------------------------------------------------ rate_movie
\* the scores a POST may carry
SubmitScores == {-1, 60, 80, 101}

ValidScoreAny(s) == TRUE

\* 0 <= score <= 100
ValidScore(s) == 0 <= s /\ s <= ScoreMax

\* the requests: a GET, or a POST carrying a score
Requests ==
    {[method |-> "GET", score |-> 0]} \cup
    {[method |-> "POST", score |-> s] : s \in SubmitScores}

\* rate_movie(request, movie_id) of the logged-in user u: 404 for an unknown
\* movie, nothing on GET or on a score outside 0..100
RateMovie(u, m, req) ==
    LET base == [NoOp EXCEPT !.op = "rate_movie"]
    IN  /\ nRate < MaxRate
        /\ nRate' = nRate + 1
        /\ IF m \notin Movies
           THEN /\ lastOp' = [base EXCEPT !.status = "404"]
                /\ UNCHANGED ratings
           ELSE IF req.method = "POST" /\ ValidScore(req.score)
           THEN /\ ratings' = RateRows(ratings, u, m, req.score)
                /\ lastOp' = [base EXCEPT !.status = "ok", !.args = <<u, m, req.score>>]
           ELSE /\ lastOp' = [base EXCEPT !.status = IF req.method = "POST"
                                                    THEN "invalid" ELSE "get"]
                /\ UNCHANGED ratings
        /\ UNCHANGED <<sims, recs, now, workers, social>>

\* --------------------------------------------------------------- cleanup
ExpiredInclusive(r, t) == r.created_at <= t - RetentionDays

\* created_at__lt=cutoff_date, cutoff_date = now - 30 days
Expired(r, t) == r.created_at < t - RetentionDays

\* cleanup_old_recommendations()
CleanupOldRecommendations ==
    /\ recs' = {r \in recs : ~Expired(r, now)}
    /\ lastOp' = [NoOp EXCEPT !.op = "cleanup_old_recommendations", !.status = "ok",
                              !.created = Cardinality({r \in recs : Expired(r, now)})]
    /\ UNCHANGED <<ratings, sims, now, nRate, workers, social>>

\* the clock
Tick ==
    /\ now + TickDays <= MaxDays
    /\ now' = now + TickDays
    /\ UNCHANGED <<ratings, sims, recs, nRate, lastOp, workers, social>>

\* ------------------------------------------------------------ orderings
RECURSIVE SortedSeqs(_, _)
\* the sequences that list the elements of S with x ahead of y whenever
\* before[<<x, y>>]; elements that tie may come in either order
SortedSeqs(S, before) ==
    IF S = {} THEN {<<>>}
    ELSE UNION { {<<x>> \o t : t \in SortedSeqs(S \ {x}, before)} :
                 x \in {y \in S : \A z \in S : ~before[<<z, y>>]} }

Take(seq, k) == SubSeq(seq, 1, IF Len(seq) < k THEN Len(seq) ELSE k)

Range(seq) == {seq[i] : i \in DOMAIN seq}

\* 2v - 1 as sgn * sqrt(num / den), to compare values of either kind
Root(v) ==
    IF v.kind = "pearson" THEN v
    ELSE [kind |-> "pearson", sgn |-> Sign(2 * v.num - v.den),
          num |-> (2 * v.num - v.den) * (2 * v.num - v.den), den |-> v.den * v.den]

SimValueLess(v, w) ==
    LET a == Root(v)
        b == Root(w)
    IN  \/ a.sgn < b.sgn
        \/ a.sgn = 1 /\ b.sgn = 1 /\ a.num * b.den < b.num * a.den
        \/ a.sgn = -1 /\ b.sgn = -1 /\ a.num * b.den > b.num * a.den

\* n1/d1 < n2/d2 for positive denominators
RatioLess(v, w) == v.num * w.den < w.num * v.den

\* ------------------------------------------- generate_user_recommendations
\* filter(user1=user).union(filter(user2=user))
SimilarRows(table, u) == {r \in table : r.user1 = u} \cup {r \in table : r.user2 = u}

\* .order_by('-similarity_score')[:20]: the rows kept, for each way to break ties
TopSelections(rows) ==
    IF Cardinality(rows) <= TopSimilar THEN {rows}
    ELSE {sel \in SUBSET rows :
            /\ Cardinality(sel) = TopSimilar
            /\ \A r \in sel, q \in rows \ sel :
                  ~SimValueLess(r.similarity_score, q.similarity_score)}

OtherUser(row, u) == IF row.user1 = u THEN row.user2 ELSE row.user1

SimilarUserIds(sel, u) == {OtherUser(r, u) : r \in sel}

ContributingAnyUser(rs, ids, m) ==
    {r \in rs : r.movie = m /\ r.score >= MinScore}

ContributingAnyScore(rs, ids, m) ==
    {r \in rs : r.movie = m /\ r.user \in ids}

\* the Rating rows the filter joins to movie m
Contributing(rs, ids, m) ==
    {r \in rs : r.movie = m /\ r.user \in ids /\ r.score >= MinScore}

ContributedSum(rs, ids, m) ==
    SumF([r \in Contributing(rs, ids, m) |-> r.score], Contributing(rs, ids, m))

\* the movies of recommended_movies before ordering
ExcludeNothing(rs, u, m) == TRUE

NotRatedBy(rs, u, m) == m \notin RatedMovies(rs, u)

QualifyingWithRated(rs, ids, u) ==
    {m \in {r.movie : r \in rs} : Cardinality(Contributing(rs, ids, m)) >= MinCoRaters}

Qualifying(rs, ids, u) ==
    {m \in {r.movie : r \in rs} : /\ Contributing(rs, ids, m) # {}
                    /\ NotRatedBy(rs, u, m)
                    /\ Cardinality(Contributing(rs, ids, m)) >= MinCoRaters}

\* avg_score
AvgScore(rs, ids, m) ==
    Ratio(ContributedSum(rs, ids, m), Cardinality(Contributing(rs, ids, m)))

ConfidenceUnscaled(rs, ids, m) ==
    Ratio(ContributedSum(rs, ids, m), Cardinality(Contributing(rs, ids, m)))

\* movie.avg_score / 100
Confidence(rs, ids, m) ==
    Ratio(ContributedSum(rs, ids, m), 100 * Cardinality(Contributing(rs, ids, m)))

RecommendedMoviesUncut(rs, ids, u) ==
    LET q == Qualifying(rs, ids, u)
        avg == [m \in q |-> AvgScore(rs, ids, m)]
        before == [p \in q \X q |-> RatioLess(avg[p[2]], avg[p[1]])]
    IN  SortedSeqs(q, before)

\* .order_by('-avg_score')[:50]
RecommendedMovies(rs, ids, u) ==
    LET q == Qualifying(rs, ids, u)
        avg == [m \in q |-> AvgScore(rs, ids, m)]
        before == [p \in q \X q |-> RatioLess(avg[p[2]], avg[p[1]])]
    IN  {Take(seq, BatchSize) : seq \in SortedSeqs(q, before)}

\* the row Recommendation.objects.create builds: the lookup, the defaults, and
\* the model's field defaults; predicted_rating has none and stays NULL
NewRecommendation(u, m, conf, t) ==
    [user |-> u, movie |-> m, recommendation_type |-> "collaborative",
     confidence_score |-> conf, predicted_rating |-> NoValue,
     reason |-> "similar users", similar_users |-> <<>>,
     is_seen |-> FALSE, is_dismissed |-> FALSE, user_feedback |-> "",
     created_at |-> t, expires_at |-> {}]

\* the NOT NULL columns of the recommendations table accept the row
Insertable(row) == row.predicted_rating # NoValue

RecRows(table, u, m) == {r \in table : r.user = u /\ r.movie = m}

ApplyDefaultsReset(r, conf) ==
    [r EXCEPT !.recommendation_type = "collaborative",
              !.confidence_score = conf,
              !.reason = "similar users",
              !.is_seen = FALSE,
              !.user_feedback = ""]

\* update_or_create on a row that exists: the defaults are set on the row found
\* and the row is saved
ApplyDefaults(r, conf) ==
    [r EXCEPT !.recommendation_type = "collaborative",
              !.confidence_score = conf,
              !.reason = "similar users"]

RECURSIVE GenLoop(_, _, _, _, _, _, _)
\* the loop over recommended_movies from position i: update_or_create per movie;
\* an INSERT the table rejects raises IntegrityError, which ends the task
GenLoop(table, rs, ids, u, seq, i, t) ==
    IF i > Len(seq) THEN [table |-> table, status |-> "ok", created |-> 0, tried |-> {}]
    ELSE LET m    == seq[i]
             old  == RecRows(table, u, m)
             conf == Confidence(rs, ids, m)
             new  == NewRecommendation(u, m, conf, t)
         IN  IF old # {}
             THEN LET upd  == {ApplyDefaults(r, conf) : r \in old}
                      rest == GenLoop((table \ old) \cup upd, rs, ids, u, seq, i + 1, t)
                  IN  [rest EXCEPT !.tried = rest.tried \cup {m}]
             ELSE IF Insertable(new)
             THEN LET rest == GenLoop(table \cup {new}, rs, ids, u, seq, i + 1, t)
                  IN  [rest EXCEPT !.tried = rest.tried \cup {m},
                                   !.created = rest.created + 1]
             ELSE [table |-> table, status |-> "raised", created |-> 0, tried |-> {m}]

UserExistsAlways(u) == TRUE

\* User.objects.get(id=user_id) finds a row
UserExists(u) == u \in Users

\* generate_user_recommendations(user_id): User.DoesNotExist and the
\* IntegrityError of a rejected INSERT are logged and raised again
GenerateUserRecommendations(u) ==
    LET base == [NoOp EXCEPT !.op = "generate_user_recommendations", !.args = <<u>>,
                             !.rerun = (/\ lastOp.op = "generate_user_recommendations"
                                        /\ lastOp.args = <<u>>)]
    IN  /\ IF ~UserExists(u)
           THEN /\ lastOp' = [base EXCEPT !.status = "DoesNotExist"]
                /\ UNCHANGED recs
           ELSE \E sel \in TopSelections(SimilarRows(sims, u)) :
                  LET ids == SimilarUserIds(sel, u)
                  IN  \E seq \in RecommendedMovies(ratings, ids, u) :
                        LET res == GenLoop(recs, ratings, ids, u, seq, 1, now)
                        IN  /\ recs' = res.table
                            /\ lastOp' = [base EXCEPT !.status = res.status,
                                                      !.created = res.created,
                                                      !.movies = res.tried,
                                                      !.list = seq,
                                                      !.similar = ids]
        /\ UNCHANGED <<ratings, sims, now, nRate, workers, social>>

\* ----------------------------------------------------------- for_you_view
\* the catalog: Movie.popularity and Movie.genres of movie m
Popularity(m) == (3 * m) % 4

MovieGenres(m) == IF m % 2 = 1 THEN {1, 2, 3} ELSE {1}

MovieRows(rs, m) == {r \in rs : r.movie = m}

\* genres of the movies the user rated >= 70
PreferredGenres(rs, u) ==
    UNION {MovieGenres(r.movie) : r \in {q \in rs : q.user = u /\ q.score >= MinScore}}

\* Count('ratings') over the join with the matching genre rows
JoinedRatingCount(rs, preferred, m) ==
    Cardinality(MovieGenres(m) \cap preferred) * Cardinality(MovieRows(rs, m))

GenreMovies(rs, u) ==
    LET preferred == PreferredGenres(rs, u)
        rated     == RatedMovies(rs, u)
    IN  {m \in Movies : /\ MovieGenres(m) \cap preferred # {}
                        /\ m \notin rated
                        /\ JoinedRatingCount(rs, preferred, m) >= ForYouMinCount}

MovieAvg(rs, m) ==
    Ratio(SumF([r \in MovieRows(rs, m) |-> r.score], MovieRows(rs, m)),
          Cardinality(MovieRows(rs, m)))

\* the genre branch: order_by('-avg_rating', '-popularity').distinct()[:24]
GenreRanking(rs, u) ==
    LET c == GenreMovies(rs, u)
        avg == [m \in c |-> MovieAvg(rs, m)]
        before == [p \in c \X c |->
                     \/ RatioLess(avg[p[2]], avg[p[1]])
                     \/ /\ avg[p[2]] = avg[p[1]]
                        /\ Popularity(p[2]) < Popularity(p[1])]
    IN  {Take(seq, ForYouLimit) : seq \in SortedSeqs(c, before)}

PopularRankingAscending ==
    LET before == [p \in Movies \X Movies |-> Popularity(p[1]) < Popularity(p[2])]
    IN  {Take(seq, ForYouLimit) : seq \in SortedSeqs(Movies, before)}

\* the new-user branch: Movie.objects.order_by('-popularity')[:24]
PopularRanking ==
    LET before == [p \in Movies \X Movies |-> Popularity(p[2]) < Popularity(p[1])]
    IN  {Take(seq, ForYouLimit) : seq \in SortedSeqs(Movies, before)}

\* Recommendation.objects.filter(user=user).order_by('-confidence_score')[:12]
ShownRecommendations(table, u) ==
    LET rows == {r \in table : r.user = u}
    IN  IF Cardinality(rows) <= ForYouRecs THEN {rows}
        ELSE {sel \in SUBSET rows :
                /\ Cardinality(sel) = ForYouRecs
                /\ \A r \in sel, q \in rows \ sel :
                      ~RatioLess(r.confidence_score, q.confidence_score)}

\* for_you_view(request) of the logged-in user u
ForYouView(u) ==
    /\ \E seq \in (IF RatedMovies(ratings, u) # {} THEN GenreRanking(ratings, u)
                   ELSE PopularRanking),
          shown \in ShownRecommendations(recs, u) :
            lastOp' = [NoOp EXCEPT !.op = "for_you_view", !.args = <<u>>,
                          !.status = IF RatedMovies(ratings, u) # {} THEN "genres"
                                     ELSE "popular",
                          !.list = seq,
                          !.movies = {r.movie : r \in shown}]
    /\ UNCHANGED <<ratings, sims, recs, now, nRate, workers, social>>

\* ------------------------------------------------------------ the system
\* a request log that fills the Rating table: <<user, movie, score>>
SeedScript ==
    << <<1, 1, 80>>, <<1, 2, 90>>, <<1, 3, 40>>,
       <<2, 1, 85>>, <<2, 2, 95>>, <<2, 3, 35>>, <<2, 4, 100>>, <<2, 5, 75>>,
       <<3, 1, 90>>, <<3, 2, 90>>, <<3, 3, 90>>, <<3, 4, 95>>, <<3, 5, 85>> >>

RECURSIVE ReplayScript(_)
\* the Rating table after the first k requests of the log
ReplayScript(k) ==
    IF k = 0 THEN {}
    ELSE RateRows(ReplayScript(k - 1), SeedScript[k][1], SeedScript[k][2],
                  SeedScript[k][3])

\* the log prefixes the system starts from: no rating, one rater, two raters,
\* all but the last request, the whole log
SeedPrefixes == {0, 3, 8, Len(SeedScript) - 1, Len(SeedScript)}

\* Recommendation rows found in the table at the start: generation cannot insert
\* (see NewRecommendation), so stored rows are rows loaded with every column set
SeedRecommendation(u, m) ==
    [user |-> u, movie |-> m, recommendation_type |-> "hybrid",
     confidence_score |-> Ratio(1, 2), predicted_rating |-> Ratio(75, 1),
     reason |-> "loaded", similar_users |-> <<2, 3>>,
     is_seen |-> TRUE, is_dismissed |-> FALSE, user_feedback |-> "helpful",
     created_at |-> IF m = 4 THEN 0 - 1 ELSE 0, expires_at |-> {60}]

SeedRecKeys == {<<1, 4>>, <<1, 5>>}

Init ==
    /\ \E k \in SeedPrefixes : ratings = ReplayScript(k)
    /\ \E keys \in SUBSET SeedRecKeys :
          /\ \A key \in keys : key[2] \notin RatedMovies(ratings, key[1])
          /\ recs = {SeedRecommendation(key[1], key[2]) : key \in keys}
    /\ sims = {}
    /\ now = 0
    /\ nRate = 0
    /\ lastOp = NoOp
    /\ workers = [w \in Workers |-> IdleWorker]
    /\ InitSocial

Next ==
    \/ \E u \in Users, m \in MovieIds, req \in Requests : RateMovie(u, m, req)
    \/ CalculateAllUserSimilarities
    \/ \E u \in UserIds : GenerateUserRecommendations(u)
    \/ CleanupOldRecommendations
    \/ \E u \in Users : ForYouView(u)
    \/ Tick

Spec == Init /\ [][Next]_vars

\* ------------------------------------------------- similarity on its own
\* score tables of two raters over the first three movies: rater 1 scores all
\* three, rater 2 any subset; and the two worked examples of the documentation
SimScores == {0, 50, 100}

SimCells == {<<u, m>> : u \in 1..2, m \in 1..3}

ExampleTables ==
    { [c \in SimCells |-> IF c[1] = 1 THEN 90 ELSE <<80, 85, 95>>[c[2]]],
      [c \in SimCells |-> IF c[1] = 1 THEN <<80, 90, 40>>[c[2]] ELSE <<85, 95, 35>>[c[2]]] }

SimTables ==
    {tbl \in [SimCells -> SimScores \cup {-1}] : \A m \in 1..3 : tbl[<<1, m>>] # -1}
        \cup ExampleTables

RECURSIVE Replay(_, _, _)
\* the Rating table after the submissions tbl[c], c in cells, in row order
Replay(rs, tbl, cells) ==
    IF cells = {} THEN rs
    ELSE LET c == CHOOSE d \in cells :
                    \A e \in cells : d[1] < e[1] \/ (d[1] = e[1] /\ d[2] <= e[2])
         IN  Replay(IF tbl[c] = -1 THEN rs ELSE RateRows(rs, c[1], c[2], tbl[c]),
                    tbl, cells \ {c})

InitSim ==
    /\ \E tbl \in SimTables : ratings = Replay({}, tbl, SimCells)
    /\ sims = {}
    /\ recs = {}
    /\ now = 0
    /\ nRate = 0
    /\ lastOp = NoOp
    /\ workers = [w \in Workers |-> IdleWorker]
    /\ InitSocial

NextSim == \E x \in UserIds, y \in UserIds : CalculateUserSimilarity(x, y)

SpecSim == InitSim /\ [][NextSim]_vars

\* --------------------------------------------------- Rating.save on its own
\* one user's score history of n ratings, the first k of them low, built by the
\* requests that wrote it
LowScore == 20

HighScore == 80

RECURSIVE TierHistory(_, _)
TierHistory(n, k) ==
    IF n = 0 THEN {}
    ELSE RateRows(TierHistory(n - 1, IF k < n THEN k ELSE n - 1), 1, n,
                  IF n <= k THEN LowScore ELSE HighScore)

\* the scores saved against a history: below, at and between the stored scores
TierScores == {0, LowScore, 50, HighScore, 100}

\* Rating.save() of a rating of user u for movie m with score s
SaveRating(u, m, s) ==
    LET old == {r \in ratings : r.user = u /\ r.movie = m}
        row == IF old = {} THEN [user |-> u, movie |-> m, score |-> s, tier |-> ""]
               ELSE [(CHOOSE r \in old : TRUE) EXCEPT !.score = s]
    IN  /\ nRate < MaxRate
        /\ nRate' = nRate + 1
        /\ ratings' = RatingSave(ratings, row)
        /\ lastOp' = [NoOp EXCEPT !.op = "rating_save", !.args = <<u, m, s>>,
                                  !.status = "ok"]
        /\ UNCHANGED <<sims, recs, now, workers, social>>

InitTier ==
    /\ \E n \in 0..MaxHistory : \E k \in 0..n : ratings = TierHistory(n, k)
    /\ sims = {}
    /\ recs = {}
    /\ now = 0
    /\ nRate = 0
    /\ lastOp = NoOp
    /\ workers = [w \in Workers |-> IdleWorker]
    /\ InitSocial

NextTier == \E m \in {1, MaxHistory + 1}, s \in TierScores : SaveRating(1, m, s)

SpecTier == InitTier /\ [][NextTier]_vars

\* ------------------------------------------------ the batch under faults
RECURSIVE FaultyBatchFoldAbort(_, _, _, _, _)
FaultyBatchFoldAbort(outcome, failing, order, pos, acc) ==
    LET n == Len(order)
        i == pos[1]
        j == pos[2]
        o == outcome[<<order[i], order[j]>>]
        next == IF j < n THEN <<i, j + 1>> ELSE <<i + 1, i + 2>>
    IN  IF i >= n THEN acc
        ELSE IF SimKey(order[i], order[j]) \in failing
        THEN acc
        ELSE IF o.write
        THEN FaultyBatchFoldAbort(outcome, failing, order, next,
                 [table |-> SimUpsert(acc.table, o.key, o.score, o.count),
                  count |-> acc.count + 1])
        ELSE FaultyBatchFoldAbort(outcome, failing, order, next, acc)

RECURSIVE FaultyBatchFold(_, _, _, _, _)
\* the loops of calculate_all_user_similarities when the calls on the pairs of
\* `failing` hit an exception (a failed query or write): calculate_user_similarity
\* catches it and returns None, the loops go on
FaultyBatchFold(outcome, failing, order, pos, acc) ==
    LET n == Len(order)
        i == pos[1]
        j == pos[2]
        o == outcome[<<order[i], order[j]>>]
        next == IF j < n THEN <<i, j + 1>> ELSE <<i + 1, i + 2>>
    IN  IF i >= n THEN acc
        ELSE IF SimKey(order[i], order[j]) \in failing
        THEN FaultyBatchFold(outcome, failing, order, next, acc)
        ELSE IF o.write
        THEN FaultyBatchFold(outcome, failing, order, next,
                 [table |-> SimUpsert(acc.table, o.key, o.score, o.count),
                  count |-> acc.count + 1])
        ELSE FaultyBatchFold(outcome, failing, order, next, acc)

\* calculate_all_user_similarities() in which any set of pair computations fails
CalculateAllWithFaults ==
    LET raters  == Raters(ratings)
        pairs   == {q \in raters \X raters : q[1] # q[2]}
        outcome == [p \in pairs |-> SimilarityOutcome(ratings, p[1], p[2])]
    IN  \E order \in Orderings(raters), failing \in SUBSET {SimKey(p[1], p[2]) : p \in pairs} :
          LET res == FaultyBatchFold(outcome, failing, order, <<1, 2>>,
                                     [table |-> sims, count |-> 0])
          IN  /\ sims' = res.table
              /\ lastOp' = [NoOp EXCEPT !.op = "calculate_all_user_similarities",
                                        !.status = "ok", !.created = res.count,
                                        !.failed = failing]
              /\ UNCHANGED <<ratings, recs, now, nRate, workers, social>>

NextBatch ==
    \/ CalculateAllWithFaults
    \/ \E x \in UserIds, y \in UserIds : CalculateUserSimilarity(x, y)

SpecBatch == Init /\ [][NextBatch]_vars

\* ------------------------------------------------------ concurrent workers
\* Two workers run calculate_user_similarity or generate_user_recommendations
\* side by side.  A task reads the tables when it starts; each update_or_create
\* is a transaction of its own: SELECT ... FOR UPDATE, then either an UPDATE of
\* the row found, or an INSERT, and after an IntegrityError on the INSERT a
\* second SELECT (Django's get_or_create).  The unique_together constraints of
\* the tables reject the INSERT of a key that is stored.

\* the UserSimilarity table after a batch over the whole seed log
SeedSimilarities ==
    LET rs      == ReplayScript(Len(SeedScript))
        raters  == Raters(rs)
        outcome == [p \in {q \in raters \X raters : q[1] # q[2]} |->
                      SimilarityOutcome(rs, p[1], p[2])]
        order   == CHOOSE o \in Orderings(raters) : TRUE
    IN  BatchFold(outcome, order, <<1, 2>>,
                  [table |-> {}, count |-> 0, calls |-> <<>>]).table

SimKeyNeverTaken(table, key) == FALSE

\* unique_together = ('user1', 'user2')
SimKeyTaken(table, key) == \E r \in table : r.user1 = key[1] /\ r.user2 = key[2]

\* unique_together = ('user', 'movie')
RecKeyTaken(table, key) == RecRows(table, key[1], key[2]) # {}

\* the key a worker's current update_or_create looks up
Target(wk) ==
    IF wk.task = "similarity" THEN wk.key ELSE <<wk.args[1], wk.seq[wk.pos]>>

RowStored(wk) ==
    IF wk.task = "similarity" THEN SimKeyTaken(sims, wk.key)
    ELSE RecKeyTaken(recs, Target(wk))

\* another worker holds the row lock of SELECT ... FOR UPDATE on the same row
RowLocked(w) ==
    \E v \in Workers \ {w} :
        /\ workers[v].pc = "update"
        /\ workers[v].task = workers[w].task
        /\ Target(workers[v]) = Target(workers[w])

\* the INSERT of a UserSimilarity row
SimInsert(table, key, score, count) ==
    table \cup {SimSave([user1 |-> key[1], user2 |-> key[2],
                         similarity_score |-> score,
                         common_movies_count |-> count,
                         calculation_method |-> "pearson"])}

\* the worker after its update_or_create returned: the similarity task is
\* done, the generation task goes to its next movie
Advance(wk) ==
    IF wk.task = "similarity" \/ wk.pos >= Len(wk.seq)
    THEN [wk EXCEPT !.pc = "done", !.status = "ok"]
    ELSE [wk EXCEPT !.pc = "get", !.pos = wk.pos + 1]

\* a worker takes calculate_user_similarity(x, y): reads the ratings, computes
StartSimilarity(w, x, y) ==
    LET o == SimilarityOutcome(ratings, x, y)
        base == [IdleWorker EXCEPT !.task = "similarity", !.args = <<x, y>>]
    IN  /\ workers[w].pc = "idle"
        /\ workers' = [workers EXCEPT ![w] =
              IF o.write
              THEN [base EXCEPT !.pc = "get", !.key = o.key, !.score = o.score,
                                !.count = o.count]
              ELSE [base EXCEPT !.pc = "done", !.status = "ok"]]
        /\ UNCHANGED <<ratings, sims, recs, now, nRate, lastOp, social>>

\* a worker takes generate_user_recommendations(u): reads the similar users and
\* evaluates recommended_movies
StartGeneration(w, u) ==
    /\ workers[w].pc = "idle"
    /\ UserExists(u)
    /\ \E sel \in TopSelections(SimilarRows(sims, u)) :
          LET ids == SimilarUserIds(sel, u)
          IN  \E seq \in RecommendedMovies(ratings, ids, u) :
                workers' = [workers EXCEPT ![w] =
                    [IdleWorker EXCEPT
                        !.task = "generate", !.args = <<u>>, !.seq = seq,
                        !.conf = [i \in DOMAIN seq |-> Confidence(ratings, ids, seq[i])],
                        !.pos = IF seq = <<>> THEN 0 ELSE 1,
                        !.pc = IF seq = <<>> THEN "done" ELSE "get",
                        !.status = IF seq = <<>> THEN "ok" ELSE "none"]]
    /\ UNCHANGED <<ratings, sims, recs, now, nRate, lastOp, social>>

\* the first SELECT ... FOR UPDATE of update_or_create; it waits while another
\* transaction holds the row
UpsertGet(w) ==
    LET wk == workers[w]
    IN  /\ wk.pc = "get"
        /\ RowStored(wk) => ~RowLocked(w)
        /\ workers' = [workers EXCEPT ![w].pc = IF RowStored(wk) THEN "update"
                                                ELSE "create"]
        /\ UNCHANGED <<ratings, sims, recs, now, nRate, lastOp, social>>

\* the INSERT of update_or_create, committed when it succeeds
UpsertCreate(w) ==
    LET wk  == workers[w]
        new == NewRecommendation(wk.args[1], wk.seq[wk.pos], wk.conf[wk.pos], now)
    IN  /\ wk.pc = "create"
        /\ IF wk.task = "similarity"
           THEN IF SimKeyTaken(sims, wk.key)
                THEN /\ workers' = [workers EXCEPT ![w].pc = "refetch",
                                                   ![w].error = "duplicate-key"]
                     /\ UNCHANGED <<sims, recs>>
                ELSE /\ sims' = SimInsert(sims, wk.key, wk.score, wk.count)
                     /\ workers' = [workers EXCEPT ![w] = Advance(wk)]
                     /\ UNCHANGED recs
           ELSE IF ~Insertable(new) \/ RecKeyTaken(recs, Target(wk))
                THEN /\ workers' = [workers EXCEPT
                          ![w].pc = "refetch",
                          ![w].error = IF ~Insertable(new) THEN "not-null"
                                       ELSE "duplicate-key"]
                     /\ UNCHANGED <<sims, recs>>
                ELSE /\ recs' = recs \cup {new}
                     /\ workers' = [workers EXCEPT ![w] = Advance(wk)]
                     /\ UNCHANGED sims
        /\ UNCHANGED <<ratings, now, nRate, lastOp, social>>

\* the second SELECT of get_or_create after an IntegrityError; when it finds
\* nothing the IntegrityError is raised: calculate_user_similarity catches it,
\* generate_user_recommendations raises it again
UpsertRefetch(w) ==
    LET wk == workers[w]
    IN  /\ wk.pc = "refetch"
        /\ RowStored(wk) => ~RowLocked(w)
        /\ workers' = [workers EXCEPT ![w] =
              IF RowStored(wk) THEN [wk EXCEPT !.pc = "update"]
              ELSE [wk EXCEPT !.pc = "done",
                              !.status = IF wk.task = "similarity" THEN "caught"
                                         ELSE "raised"]]
        /\ UNCHANGED <<ratings, sims, recs, now, nRate, lastOp, social>>

\* the UPDATE of the row found, with the defaults, and the commit
UpsertUpdate(w) ==
    LET wk == workers[w]
    IN  /\ wk.pc = "update"
        /\ IF wk.task = "similarity"
           THEN /\ sims' = SimUpsert(sims, wk.key, wk.score, wk.count)
                /\ UNCHANGED recs
           ELSE LET old == RecRows(recs, wk.args[1], wk.seq[wk.pos])
                IN  /\ recs' = (recs \ old) \cup
                          {ApplyDefaults(r, wk.conf[wk.pos]) : r \in old}
                    /\ UNCHANGED sims
        /\ workers' = [workers EXCEPT ![w] = Advance(wk)]
        /\ UNCHANGED <<ratings, now, nRate, lastOp, social>>

InitConc ==
    /\ ratings = ReplayScript(Len(SeedScript))
    /\ \E keys \in SUBSET SeedRecKeys :
          recs = {SeedRecommendation(key[1], key[2]) : key \in keys}
    /\ sims \in {{}, SeedSimilarities}
    /\ now = 0
    /\ nRate = 0
    /\ lastOp = NoOp
    /\ workers = [w \in Workers |-> IdleWorker]
    /\ InitSocial

\* the tasks the workers take: the pair (1, 2) in either order, generation for
\* user 1; meanwhile user 2 may rate movie 1 or movie 4 with 60
NextConc ==
    \/ \E w \in Workers, p \in {<<1, 2>>, <<2, 1>>} : StartSimilarity(w, p[1], p[2])
    \/ \E w \in Workers : StartGeneration(w, 1)
    \/ \E w \in Workers : UpsertGet(w)
    \/ \E w \in Workers : UpsertCreate(w)
    \/ \E w \in Workers : UpsertRefetch(w)
    \/ \E w \in Workers : UpsertUpdate(w)
    \/ \E m \in {1, 4} : RateMovie(2, m, [method |-> "POST", score |-> 60])

SpecConc == InitConc /\ [][NextConc]_vars

\* ------------------------------------- generation over any stored pair rows
\* calculate_user_similarity called on its own for any two existing users, and
\* generate_user_recommendations reading the rows it left
NextGen ==
    \/ \E x \in Users, y \in Users : CalculateUserSimilarity(x, y)
    \/ \E u \in Users : GenerateUserRecommendations(u)

SpecGen == Init /\ [][NextGen]_vars

\* ------------------------------------------- generation over a large catalog
\* a request log for a catalog with k candidate movies 4..3+k: users 1, 2 and 3
\* rate movies 1..3; users 2 and 3 rate candidate j with 70 + j/2 and
\* 70 + (j+1)/2, so that the averages grow with j (with `tie`, candidates 1 and
\* 2 have the same average); then one movie rated 100 by user 2 alone, and one
\* rated 100 by user 2 and 60 by user 3
TopScript(k, tie) ==
    << <<1, 1, 80>>, <<1, 2, 90>>, <<1, 3, 40>>,
       <<2, 1, 85>>, <<2, 2, 95>>, <<2, 3, 35>>,
       <<3, 1, 90>>, <<3, 2, 100>>, <<3, 3, 30>> >>
    \o [j \in 1..k |-> <<2, 3 + j, 70 + (j \div 2)>>]
    \o [j \in 1..k |-> <<3, 3 + j, 70 + ((j + 1) \div 2)
                                      + (IF tie /\ j = 1 THEN 1 ELSE 0)>>]
    \o << <<2, 3 + k + 1, 100>>, <<2, 3 + k + 2, 100>>, <<3, 3 + k + 2, 60>> >>

\* the Rating table after the requests of the log, which has one request per
\* (user, movie): request n leaves its row as rate_movie writes it into the
\* table of the requests before it
ReplayTop(script) ==
    LET before(n) == {[user |-> script[i][1], movie |-> script[i][2],
                       score |-> script[i][3], tier |-> ""] : i \in 1..(n - 1)}
    IN  {CHOOSE r \in RateRows(before(n), script[n][1], script[n][2], script[n][3]) :
             r.user = script[n][1] /\ r.movie = script[n][2] : n \in DOMAIN script}

\* the rows calculate_user_similarity(1, 2) and calculate_user_similarity(1, 3)
\* leave
TopSimilarities(rs) ==
    LET a == SimilarityOutcome(rs, 1, 2)
        b == SimilarityOutcome(rs, 1, 3)
    IN  SimUpsert(SimUpsert({}, a.key, a.score, a.count), b.key, b.score, b.count)

\* catalogs of 48 to 50 + TopExtra candidates; user 1 has a Recommendation row
\* for every candidate, or for every candidate but one
InitTop ==
    /\ \E k \in (BatchSize - 2)..(BatchSize + TopExtra), tie \in BOOLEAN :
          /\ ratings = ReplayTop(TopScript(k, tie))
          /\ \E missing \in {0, 30, k} :
                recs = {SeedRecommendation(1, 3 + j) : j \in (1..k) \ {missing}}
    /\ sims = TopSimilarities(ratings)
    /\ now = 0
    /\ nRate = 0
    /\ lastOp = NoOp
    /\ workers = [w \in Workers |-> IdleWorker]
    /\ InitSocial

NextTop ==
    \/ GenerateUserRecommendations(1)
    \/ CleanupOldRecommendations

SpecTop == InitTop /\ [][NextTop]_vars

\* ------------------------------------------------ the batch after deletions
\* the admin site deletes movie m: its Rating and Recommendation rows go with it
\* (on_delete=CASCADE)
DeleteMovie(m) ==
    /\ ratings' = {r \in ratings : r.movie # m}
    /\ recs' = {r \in recs : r.movie # m}
    /\ lastOp' = [NoOp EXCEPT !.op = "delete_movie", !.args = <<m>>, !.status = "ok"]
    /\ UNCHANGED <<sims, now, nRate, workers, social>>

NextStale ==
    \/ \E m \in Movies : DeleteMovie(m)
    \/ CalculateAllUserSimilarities
    \/ \E u \in Users : GenerateUserRecommendations(u)

SpecStale == Init /\ [][NextStale]_vars

\* ------------------------------------------------------ toggle_comment_like
\* request.POST.get('is_like') == 'true'
IsLike(raw) == raw = "true"

ReactionName(is_like) == IF is_like THEN "like" ELSE "dislike"

ToggledLikesKeep(table, u, c, is_like) ==
    LET old == {r \in table : r.comment = c /\ r.user = u}
    IN  IF old = {}
        THEN [table |-> table \cup {[comment |-> c, user |-> u, is_like |-> is_like]},
              reaction |-> ReactionName(is_like)]
        ELSE [table |-> (table \ old) \cup {[r EXCEPT !.is_like = is_like] : r \in old},
              reaction |-> ReactionName(is_like)]

\* get_or_create, then for a row that was there: delete it when it has the
\* polarity asked for, switch it otherwise; with the reaction the view reports
ToggledLikes(table, u, c, is_like) ==
    LET old == {r \in table : r.comment = c /\ r.user = u}
    IN  IF old = {}
        THEN [table |-> table \cup {[comment |-> c, user |-> u, is_like |-> is_like]},
              reaction |-> ReactionName(is_like)]
        ELSE IF (CHOOSE r \in old : TRUE).is_like = is_like
        THEN [table |-> table \ old, reaction |-> "none"]
        ELSE [table |-> (table \ old) \cup {[r EXCEPT !.is_like = is_like] : r \in old},
              reaction |-> ReactionName(is_like)]

\* toggle_comment_like(request, comment_id) of the logged-in user u, a POST with
\* is_like = raw: 404 for an unknown comment; the JSON answer of an AJAX request
\* carries user_reaction, any other request is redirected
ToggleCommentLike(u, c, raw, ajax) ==
    LET base == [NoOp EXCEPT !.op = "toggle_comment_like", !.args = <<u, c, raw>>]
        res  == ToggledLikes(likes, u, c, IsLike(raw))
    IN  /\ IF c \notin Comments
           THEN /\ lastOp' = [base EXCEPT !.status = "404"]
                /\ UNCHANGED likes
           ELSE /\ likes' = res.table
                /\ lastOp' = [base EXCEPT !.status = IF ajax THEN "json" ELSE "redirect",
                                          !.reaction = res.reaction]
        /\ UNCHANGED <<ratings, sims, recs, now, nRate, workers,
                       reactions, reviews, requests, nReq>>

InitLike ==
    /\ ratings = {}
    /\ sims = {}
    /\ recs = {}
    /\ now = 0
    /\ nRate = 0
    /\ lastOp = NoOp
    /\ workers = [w \in Workers |-> IdleWorker]
    /\ InitSocial

NextLike ==
    \E u \in Users, c \in CommentIds, raw \in {"true", "false", ""}, ajax \in BOOLEAN :
        ToggleCommentLike(u, c, raw, ajax)

SpecLike == InitLike /\ [][NextLike]_vars

\* ------------------------------------------ ReviewReaction.save and delete
ReactionRows(table, u, rv) == {r \in table : r.user = u /\ r.review = rv}

\* a process takes a call of save() on a new ReviewReaction (pk is None)
BeginCreate(p, u, rv, t) ==
    /\ requests[p].pc = "idle"
    /\ nReq < MaxReq
    /\ nReq' = nReq + 1
    /\ requests' = [requests EXCEPT ![p] =
                      [IdleRequest EXCEPT !.op = "save", !.pc = "super_save",
                                          !.user = u, !.review = rv,
                                          !.reaction_type = t, !.is_new = TRUE]]
    /\ UNCHANGED <<ratings, sims, recs, now, nRate, lastOp, workers,
                   likes, reactions, reviews>>

\* a process takes a call of save() on a stored ReviewReaction it has fetched,
\* with reaction_type set to t
BeginChange(p, u, rv, t) ==
    /\ requests[p].pc = "idle"
    /\ nReq < MaxReq
    /\ ReactionRows(reactions, u, rv) # {}
    /\ nReq' = nReq + 1
    /\ requests' = [requests EXCEPT ![p] =
                      [IdleRequest EXCEPT !.op = "save", !.pc = "get_old",
                                          !.user = u, !.review = rv,
                                          !.reaction_type = t]]
    /\ UNCHANGED <<ratings, sims, recs, now, nRate, lastOp, workers,
                   likes, reactions, reviews>>

\* a process takes a call of delete() on a stored ReviewReaction it has fetched
BeginDelete(p, u, rv) ==
    /\ requests[p].pc = "idle"
    /\ nReq < MaxReq
    /\ ReactionRows(reactions, u, rv) # {}
    /\ nReq' = nReq + 1
    /\ requests' = [requests EXCEPT ![p] =
                      [IdleRequest EXCEPT !.op = "delete", !.pc = "load_review",
                                          !.user = u, !.review = rv,
                                          !.reaction_type =
                                              (CHOOSE r \in ReactionRows(reactions, u, rv) :
                                                   TRUE).reaction_type]]
    /\ UNCHANGED <<ratings, sims, recs, now, nRate, lastOp, workers,
                   likes, reactions, reviews>>

\* the end of a call: the process is free, the outcome is reported
Finished(p, status) ==
    /\ requests' = [requests EXCEPT ![p] = IdleRequest]
    /\ lastOp' = [NoOp EXCEPT !.op = "reaction_" \o requests[p].op,
                              !.args = <<requests[p].user, requests[p].review,
                                         requests[p].reaction_type>>,
                              !.status = status]

\* old_reaction = ReviewReaction.objects.get(pk=self.pk).reaction_type
GetOldReaction(p) ==
    LET rq  == requests[p]
        old == ReactionRows(reactions, rq.user, rq.review)
    IN  /\ rq.pc = "get_old"
        /\ IF old = {}
           THEN Finished(p, "DoesNotExist")
           ELSE /\ requests' = [requests EXCEPT
                                  ![p].pc = "super_save",
                                  ![p].old_reaction = (CHOOSE r \in old : TRUE).reaction_type]
                /\ UNCHANGED lastOp
        /\ UNCHANGED <<ratings, sims, recs, now, nRate, workers,
                       likes, reactions, reviews, nReq>>

\* super().save(): the INSERT of a new row, which unique_together rejects when
\* the user has a reaction to the review; the UPDATE of a stored row, or its
\* INSERT when the UPDATE finds no row
SuperSave(p) ==
    LET rq  == requests[p]
        old == ReactionRows(reactions, rq.user, rq.review)
        row == [user |-> rq.user, review |-> rq.review, reaction_type |-> rq.reaction_type]
    IN  /\ rq.pc = "super_save"
        /\ IF rq.is_new /\ old # {}
           THEN /\ Finished(p, "IntegrityError")
                /\ UNCHANGED reactions
           ELSE /\ reactions' = (reactions \ old) \cup {row}
                /\ requests' = [requests EXCEPT ![p].pc = "load_review"]
                /\ UNCHANGED lastOp
        /\ UNCHANGED <<ratings, sims, recs, now, nRate, workers, likes, reviews, nReq>>

\* what save() and delete() add to the counters of self.review
Delta(rq) ==
    IF rq.op = "delete"
    THEN IF rq.reaction_type = "like"
         THEN [likes_count |-> 0 - 1, dislikes_count |-> 0]
         ELSE [likes_count |-> 0, dislikes_count |-> 0 - 1]
    ELSE IF rq.is_new
    THEN IF rq.reaction_type = "like"
         THEN [likes_count |-> 1, dislikes_count |-> 0]
         ELSE [likes_count |-> 0, dislikes_count |-> 1]
    ELSE IF rq.old_reaction = rq.reaction_type
    THEN [likes_count |-> 0, dislikes_count |-> 0]
    ELSE IF rq.old_reaction = "like"
    THEN [likes_count |-> 0 - 1, dislikes_count |-> 1]
    ELSE [likes_count |-> 1, dislikes_count |-> 0 - 1]

\* the first access to self.review fetches the Review row; the counters are
\* then changed on that instance, in memory
LoadReview(p) ==
    LET rq == requests[p]
        d  == Delta(rq)
    IN  /\ rq.pc = "load_review"
        /\ requests' = [requests EXCEPT
                          ![p].pc = "save_review",
                          ![p].counters =
                              [likes_count |-> reviews[rq.review].likes_count + d.likes_count,
                               dislikes_count |-> reviews[rq.review].dislikes_count
                                                    + d.dislikes_count]]
        /\ UNCHANGED <<ratings, sims, recs, now, nRate, lastOp, workers,
                       likes, reactions, reviews, nReq>>

\* self.review.save(update_fields=['likes_count', 'dislikes_count']): both
\* counters of the instance are written; this ends save()
SaveReview(p) ==
    LET rq == requests[p]
    IN  /\ rq.pc = "save_review"
        /\ reviews' = [reviews EXCEPT ![rq.review] = rq.counters]
        /\ IF rq.op = "delete"
           THEN /\ requests' = [requests EXCEPT ![p].pc = "super_delete"]
                /\ UNCHANGED lastOp
           ELSE Finished(p, "ok")
        /\ UNCHANGED <<ratings, sims, recs, now, nRate, workers, likes, reactions, nReq>>

\* super().delete(), which ends delete()
SuperDelete(p) ==
    LET rq == requests[p]
    IN  /\ rq.pc = "super_delete"
        /\ reactions' = reactions \ ReactionRows(reactions, rq.user, rq.review)
        /\ Finished(p, "ok")
        /\ UNCHANGED <<ratings, sims, recs, now, nRate, workers, likes, reviews, nReq>>

ReactionTypes == {"like", "dislike"}

\* reactions of users 1 and 2
NextReact ==
    \/ \E p \in Procs, u \in {1, 2}, rv \in Reviews, t \in ReactionTypes :
          BeginCreate(p, u, rv, t)
    \/ \E p \in Procs, u \in {1, 2}, rv \in Reviews, t \in ReactionTypes :
          BeginChange(p, u, rv, t)
    \/ \E p \in Procs, u \in {1, 2}, rv \in Reviews : BeginDelete(p, u, rv)
    \/ \E p \in Procs : GetOldReaction(p)
    \/ \E p \in Procs : SuperSave(p)
    \/ \E p \in Procs : LoadReview(p)
    \/ \E p \in Procs : SaveReview(p)
    \/ \E p \in Procs : SuperDelete(p)

SpecReact == InitLike /\ [][NextReact]_vars

\* ------------------------------------------------------------- properties
IsSimilarityCall ==
    /\ lastOp.op = "calculate_user_similarity"
    /\ lastOp.args[1] \in Users
    /\ lastOp.args[2] \in Users

\* C1: for distinct users with at least 3 co-rated movies,
\* calculate_user_similarity(A, B) and calculate_user_similarity(B, A) return
\* the same value and write the same row (key, similarity_score,
\* common_movies_count)
SimilaritySymmetric ==
    \A x \in Users, y \in Users :
        (x # y /\ Cardinality(CommonMovies(ratings, x, y)) >= 3) =>
            /\ SimilarityScore(ratings, x, y) = SimilarityScore(ratings, y, x)
            /\ SimilarityOutcome(ratings, x, y) = SimilarityOutcome(ratings, y, x)
            /\ SimilarityOutcome(ratings, x, y).write

\* a call with the larger id first has written the row of the pair
SimilaritySymmetricWitness ==
    /\ IsSimilarityCall
    /\ lastOp.args[1] > lastOp.args[2]
    /\ lastOp.ret.kind = "pearson"
    /\ \E r \in sims : /\ r.user1 = lastOp.args[2]
                       /\ r.user2 = lastOp.args[1]
                       /\ r.similarity_score = lastOp.ret

\* C2: every stored UserSimilarity row has user1 < user2, and no unordered
\* pair of users has two rows
CanonicalUniquePairs ==
    /\ \A r \in sims : r.user1 < r.user2
    /\ \A r \in sims, q \in sims :
          ({r.user1, r.user2} = {q.user1, q.user2}) => r = q

\* C3: no stored UserSimilarity row relates a user to itself
NoSelfSimilarity == \A r \in sims : r.user1 # r.user2

\* C4: the similarity_score stored in every row and the value
\* calculate_user_similarity returns lie in [0, 1]
SimilarityInUnitRange ==
    /\ \A r \in sims : In01(r.similarity_score)
    /\ (IsSimilarityCall /\ lastOp.ret # NoValue) => In01(lastOp.ret)

\* the correlation -1 has been returned and stored: similarity 0
SimilarityInUnitRangeWitness ==
    /\ IsSimilarityCall
    /\ lastOp.ret.kind = "pearson"
    /\ lastOp.ret.sgn = -1
    /\ lastOp.ret.num = lastOp.ret.den
    /\ \E r \in sims : r.user1 # r.user2 /\ r.similarity_score = lastOp.ret

\* C5: with fewer than 3 co-rated movies calculate_user_similarity returns None
\* without raising and leaves the table as it was; with 3 or more it writes
\* the row of the pair
FewCommonMoviesNoSignal ==
    [][ (/\ lastOp'.op = "calculate_user_similarity"
         /\ lastOp'.args[1] \in Users
         /\ lastOp'.args[2] \in Users) =>
        LET x == lastOp'.args[1]
            y == lastOp'.args[2]
            n == Cardinality(RatedMovies(ratings, x) \cap RatedMovies(ratings, y))
        IN  IF n < 3
            THEN /\ sims' = sims
                 /\ lastOp'.ret = NoValue
                 /\ lastOp'.status = "ok"
            ELSE /\ lastOp'.ret # NoValue
                 /\ \E r \in sims' : /\ {r.user1, r.user2} = {x, y}
                                     /\ r.common_movies_count = n ]_vars

\* a call on a pair with exactly 2 co-rated movies returned None while another
\* pair's row is stored
FewCommonMoviesNoSignalWitness ==
    /\ IsSimilarityCall
    /\ Cardinality(CommonMovies(ratings, lastOp.args[1], lastOp.args[2])) = 2
    /\ lastOp.ret = NoValue
    /\ sims # {}

\* C6: the Pearson branch is taken exactly when both co-rated score lists hold
\* more than one distinct value; otherwise the value is
\* 1 - (mean absolute difference) / 100, which is 14/15 for
\* A = {1:90, 2:90, 3:90}, B = {1:80, 2:85, 3:95}
BranchAndFallbackValue ==
    (IsSimilarityCall /\ lastOp.ret # NoValue) =>
        LET x  == lastOp.args[1]
            y  == lastOp.args[2]
            d1 == ScoreDict(ratings, x)
            d2 == ScoreDict(ratings, y)
            c  == DOMAIN d1 \cap DOMAIN d2
            varies1 == \E m \in c, k \in c : d1[m] # d1[k]
            varies2 == \E m \in c, k \in c : d2[m] # d2[k]
            diff == SumF([m \in c |-> Abs(d1[m] - d2[m])], c)
        IN  /\ (lastOp.ret.kind = "pearson") <=> (varies1 /\ varies2)
            /\ (lastOp.ret.kind # "pearson") =>
                  /\ lastOp.ret.kind = "ratio"
                  /\ lastOp.ret.num * (100 * Cardinality(c))
                        = lastOp.ret.den * (100 * Cardinality(c) - diff)
            /\ (/\ d1 = [m \in 1..3 |-> 90]
                /\ d2 = [m \in 1..3 |-> <<80, 85, 95>>[m]]) =>
                  (lastOp.ret.num = 14 /\ lastOp.ret.den = 15)

\* the documented example has been computed
BranchAndFallbackValueWitness ==
    /\ IsSimilarityCall
    /\ ScoreDict(ratings, lastOp.args[1]) = [m \in 1..3 |-> 90]
    /\ ScoreDict(ratings, lastOp.args[2]) = [m \in 1..3 |-> <<80, 85, 95>>[m]]
    /\ lastOp.ret.kind = "ratio"
    /\ lastOp.ret.num = 14

IsGenerationRun ==
    /\ lastOp.op = "generate_user_recommendations"
    /\ lastOp.args[1] \in Users

\* C7: a run of generate_user_recommendations(u) neither lists nor creates nor
\* updates a movie that u has rated at the time of the run
GenerationSkipsRated ==
    IsGenerationRun =>
        (lastOp.movies \cup Range(lastOp.list))
            \cap RatedMovies(ratings, lastOp.args[1]) = {}

\* a run updated a row of u while a movie u rated has two similar users'
\* ratings of 70 or more
GenerationSkipsRatedWitness ==
    /\ IsGenerationRun
    /\ \E r \in recs : /\ r.user = lastOp.args[1]
                       /\ r.movie \in lastOp.movies
                       /\ r.recommendation_type = "collaborative"
    /\ \E m \in RatedMovies(ratings, lastOp.args[1]) :
          Cardinality({r \in ratings :
                         /\ r.movie = m
                         /\ r.score >= 70
                         /\ \E q \in sims : {q.user1, q.user2} = {r.user, lastOp.args[1]}
                         /\ r.user # lastOp.args[1]}) >= 2

SecondRunIdempotent ==
    [][ (/\ lastOp'.op = "generate_user_recommendations"
         /\ lastOp'.args[1] \in Users
         /\ lastOp'.rerun) =>
          /\ recs' = recs
          /\ lastOp'.status = "ok"
          /\ lastOp'.created = 0
          /\ \A r \in recs', q \in recs' :
                (r.user = q.user /\ r.movie = q.movie) => r = q ]_vars

\* C10 as stated: generating for a user with no rating yields the popularity
\* ranking of the catalog
ColdStartGeneration ==
    (IsGenerationRun /\ RatedMovies(ratings, lastOp.args[1]) = {}) =>
        /\ lastOp.list # <<>>
        /\ \A i \in DOMAIN lastOp.list, j \in DOMAIN lastOp.list :
              i < j => Popularity(lastOp.list[i]) >= Popularity(lastOp.list[j])

\* C10, amended: for a user with no rating, for_you_view lists the first 24
\* movies of the catalog by popularity, highest first, whatever UserSimilarity
\* holds; generate_user_recommendations has no such fallback: for that user,
\* with no UserSimilarity row of theirs, it lists nothing and reports 0
ColdStartView ==
    /\ (/\ lastOp.op = "for_you_view"
        /\ RatedMovies(ratings, lastOp.args[1]) = {}) =>
          LET l == lastOp.list
          IN  /\ l # <<>>
              /\ Len(l) = (IF Cardinality(Movies) < 24 THEN Cardinality(Movies) ELSE 24)
              /\ \A i \in DOMAIN l : l[i] \in Movies
              /\ \A i \in DOMAIN l, j \in DOMAIN l : i < j =>
                    (l[i] # l[j] /\ Popularity(l[i]) >= Popularity(l[j]))
              /\ \A m \in Movies \ Range(l), i \in DOMAIN l :
                    Popularity(m) <= Popularity(l[i])
    /\ (/\ IsGenerationRun
        /\ RatedMovies(ratings, lastOp.args[1]) = {}
        /\ SimilarRows(sims, lastOp.args[1]) = {}) =>
          /\ lastOp.list = <<>>
          /\ lastOp.movies = {}
          /\ lastOp.status = "ok"
          /\ lastOp.created = 0

\* a user with no rating opened the page while UserSimilarity rows are stored
ColdStartViewWitness ==
    /\ lastOp.op = "for_you_view"
    /\ RatedMovies(ratings, lastOp.args[1]) = {}
    /\ sims # {}
    /\ Len(lastOp.list) = Cardinality(Movies)

\* C11: a pass of cleanup_old_recommendations at time T leaves no Recommendation
\* with created_at < T - 30 days, and keeps every Recommendation with
\* created_at >= T - 30 days, all fields as they were
CleanupKeepsWindow ==
    [][ (lastOp'.op = "cleanup_old_recommendations" /\ now' = now) =>
          /\ \A r \in recs' : r.created_at >= now - 30
          /\ \A r \in recs : r.created_at >= now - 30 => r \in recs'
          /\ recs' \subseteq recs ]_vars

\* a pass removed a row one day past the window and kept a row exactly 30 days
\* old
CleanupKeepsWindowWitness ==
    /\ lastOp.op = "cleanup_old_recommendations"
    /\ lastOp.created = 1
    /\ \E r \in recs : r.created_at = now - 30

\* C12: a run of generate_user_recommendations with at least one qualifying
\* movie completes without error and leaves, for every qualifying movie, a row
\* with a confidence in [0,1], a predicted rating in [0,100], a reason and the
\* contributing similar users
GenerationProducesFullRecords ==
    (IsGenerationRun /\ lastOp.list # <<>>) =>
        /\ lastOp.status = "ok"
        /\ \A i \in DOMAIN lastOp.list :
              \E r \in recs :
                  /\ r.user = lastOp.args[1]
                  /\ r.movie = lastOp.list[i]
                  /\ In01(r.confidence_score)
                  /\ r.predicted_rating # NoValue
                  /\ r.predicted_rating.num >= 0
                  /\ r.predicted_rating.num <= 100 * r.predicted_rating.den
                  /\ r.reason # ""
                  /\ r.similar_users # <<>>

\* C13: the confidence_score of every row a run wrote equals the average of the
\* similar users' ratings (of 70 or more) of the movie divided by 100, lies in
\* [0,1], and a movie with a higher average never has a lower confidence
ConfidenceIsScaledAverage ==
    IsGenerationRun =>
        LET u == lastOp.args[1]
            similar == {v \in Users : \E q \in sims :
                           \/ q.user1 = u /\ q.user2 = v
                           \/ q.user2 = u /\ q.user1 = v}
            given(m) == {r \in ratings :
                           r.movie = m /\ r.user \in similar /\ r.score >= 70}
            total(m) == SumF([r \in given(m) |-> r.score], given(m))
            written == {r \in recs : r.user = u /\ r.movie \in lastOp.movies}
        IN  /\ \A r \in written :
                  /\ given(r.movie) # {}
                  /\ r.confidence_score.kind = "ratio"
                  /\ r.confidence_score.num * 100 * Cardinality(given(r.movie))
                        = r.confidence_score.den * total(r.movie)
                  /\ r.confidence_score.num >= 0
                  /\ r.confidence_score.num <= r.confidence_score.den
            /\ \A r \in written, q \in written :
                  (total(r.movie) * Cardinality(given(q.movie))
                      > total(q.movie) * Cardinality(given(r.movie))) =>
                    (r.confidence_score.num * q.confidence_score.den
                      >= q.confidence_score.num * r.confidence_score.den)

\* a run wrote two rows whose averages, and confidences, differ
ConfidenceIsScaledAverageWitness ==
    /\ IsGenerationRun
    /\ lastOp.status = "ok"
    /\ \E r \in recs, q \in recs :
          /\ r.user = lastOp.args[1]
          /\ q.user = lastOp.args[1]
          /\ r.movie \in lastOp.movies
          /\ q.movie \in lastOp.movies
          /\ r.confidence_score.num * q.confidence_score.den
                > q.confidence_score.num * r.confidence_score.den

\* C14: against a non-empty history, calculate_tier gives the tier of the
\* percentile p = 100 * (stored scores strictly below S) / (stored scores):
\* p < 10 terrible, p < 30 bad, p < 50 mediocre, p < 70 decent, p < 85 good,
\* p < 95 great, otherwise superb; p equal to a breakpoint is in the higher tier
TierByPercentile ==
    [][ (lastOp'.op = "rating_save" /\ UserRows(ratings, lastOp'.args[1]) # {}) =>
          LET u == lastOp'.args[1]
              m == lastOp'.args[2]
              S == lastOp'.args[3]
              history == {r \in ratings : r.user = u}
              below == Cardinality({r \in history : r.score < S})
              passed == {b \in {10, 30, 50, 70, 85, 95} :
                           100 * below >= b * Cardinality(history)}
              names == <<"terrible", "bad", "mediocre", "decent", "good", "great",
                         "superb">>
          IN  \E r \in ratings' : /\ r.user = u
                                  /\ r.movie = m
                                  /\ r.score = S
                                  /\ r.tier = names[Cardinality(passed) + 1] ]_vars

\* a score with 17 of 20 stored scores below it (p = 85) was saved as great
TierByPercentileWitness ==
    /\ lastOp.op = "rating_save"
    /\ lastOp.args[3] = 50
    /\ lastOp.args[2] = 21
    /\ Cardinality({r \in ratings : r.user = 1 /\ r.movie <= 20}) = 20
    /\ Cardinality({r \in ratings : r.user = 1 /\ r.movie <= 20 /\ r.score < 50}) = 17
    /\ \E r \in ratings : r.movie = 21 /\ r.tier = "great"

\* C15: the tier a rate_movie request leaves on the rating is the percentile
\* tier of its score against the user's ratings as stored at the last save
\* (the rating itself included), never the fixed-threshold tier of the view
\* (< 20 terrible, < 40 bad, < 55 mediocre, < 70 decent, < 85 good, < 95 great,
\* else superb) when the two differ
SavedTierIsPercentile ==
    [][ (lastOp'.op = "rate_movie" /\ lastOp'.status = "ok" /\ nRate' # nRate) =>
          LET u == lastOp'.args[1]
              m == lastOp'.args[2]
              S == lastOp'.args[3]
              others == {r \in ratings : r.user = u /\ r.movie # m}
              below == Cardinality({r \in others : r.score < S})
              total == Cardinality(others) + 1
              passed == {b \in {10, 30, 50, 70, 85, 95} : 100 * below >= b * total}
              names == <<"terrible", "bad", "mediocre", "decent", "good", "great",
                         "superb">>
              fixed == names[Cardinality({b \in {20, 40, 55, 70, 85, 95} : S >= b}) + 1]
          IN  \A r \in ratings' :
                  (r.user = u /\ r.movie = m) =>
                      /\ r.tier = names[Cardinality(passed) + 1]
                      /\ (fixed # names[Cardinality(passed) + 1]) => r.tier # fixed ]_vars

\* user 1, with scores 80, 90 and 40 stored, rated movie 4 with 60: the view
\* assigned decent, the row holds bad
SavedTierIsPercentileWitness ==
    /\ lastOp.op = "rate_movie"
    /\ lastOp.status = "ok"
    /\ lastOp.args = <<1, 4, 60>>
    /\ Cardinality(UserRows(ratings, 1)) = 4
    /\ \E r \in ratings : r.user = 1 /\ r.movie = 4 /\ r.tier = "bad"

\* C16: the first rating a user submits through rate_movie is stored with tier
\* decent
FirstRatingIsDecent ==
    [][ (/\ lastOp'.op = "rate_movie"
         /\ lastOp'.status = "ok"
         /\ nRate' # nRate
         /\ UserRows(ratings, lastOp'.args[1]) = {}) =>
          \A r \in ratings' : r.user = lastOp'.args[1] => r.tier = "decent" ]_vars

\* C17: at most one Rating per (user, movie), every score in 0..100; a valid
\* submission leaves the (user, movie) row with the submitted score and the
\* other rows as they were; any other request, a POST with a score outside
\* 0..100 included, leaves the Rating table as it was
RatingsUniqueLatest ==
    [][ /\ \A r \in ratings', q \in ratings' :
              (r.user = q.user /\ r.movie = q.movie) => r = q
        /\ \A r \in ratings' : r.score >= 0 /\ r.score <= 100
        /\ IF lastOp'.op = "rate_movie" /\ lastOp'.status = "ok" /\ nRate' # nRate
           THEN LET u == lastOp'.args[1]
                    m == lastOp'.args[2]
                IN  /\ \E r \in ratings' :
                          r.user = u /\ r.movie = m /\ r.score = lastOp'.args[3]
                    /\ {r \in ratings' : ~(r.user = u /\ r.movie = m)}
                          = {r \in ratings : ~(r.user = u /\ r.movie = m)}
           ELSE ratings' = ratings ]_vars

\* user 1 rated movie 1 again: the row holds the new score 60, not 80, and the
\* user still has three ratings
RatingsUniqueLatestWitness ==
    /\ lastOp.op = "rate_movie"
    /\ lastOp.args = <<1, 1, 60>>
    /\ Cardinality(UserRows(ratings, 1)) = 3
    /\ \E r \in ratings : r.user = 1 /\ r.movie = 1 /\ r.score = 60

\* C18: generate_user_recommendations with a user id that names no user fails
\* with User.DoesNotExist, writes no Recommendation and leaves every stored
\* row as it was
UnknownUserGenerationFails ==
    [][ (/\ lastOp'.op = "generate_user_recommendations"
         /\ lastOp'.args[1] \notin Users) =>
          /\ lastOp'.status = "DoesNotExist"
          /\ lastOp'.created = 0
          /\ recs' = recs
          /\ sims' = sims
          /\ ratings' = ratings ]_vars

\* the call failed while rows written by an earlier run for an existing user
\* are stored
UnknownUserGenerationFailsWitness ==
    /\ lastOp.op = "generate_user_recommendations"
    /\ lastOp.args[1] \notin Users
    /\ lastOp.status = "DoesNotExist"
    /\ \E r \in recs : r.recommendation_type = "collaborative"

SimilarUsersSelection ==
    IsGenerationRun =>
        LET u == lastOp.args[1]
            rows == {r \in sims : r.user1 = u \/ r.user2 = u}
            chosen == lastOp.similar
        IN  /\ u \notin chosen
            /\ chosen \subseteq {r.user1 : r \in rows} \cup {r.user2 : r \in rows}
            /\ Cardinality(chosen) <= 20
            /\ Cardinality(rows) <= 20 =>
                  \A r \in rows : (r.user1 # u => r.user1 \in chosen)
                                  /\ (r.user2 # u => r.user2 \in chosen)

\* C22: every movie a run lists has at least 2 selected similar users who each
\* rated it 70 or more, and the confidence written is the average over exactly
\* those ratings: ratings below 70 and ratings of users that were not selected
\* count for neither
ContributorsSelectedAndHigh ==
    IsGenerationRun =>
        LET u == lastOp.args[1]
            fans(m) == {v \in lastOp.similar :
                          \E r \in ratings : r.user = v /\ r.movie = m /\ r.score >= 70}
            given(m) == [v \in fans(m) |->
                           (CHOOSE r \in ratings : r.user = v /\ r.movie = m).score]
        IN  /\ \A i \in DOMAIN lastOp.list : Cardinality(fans(lastOp.list[i])) >= 2
            /\ \A r \in recs :
                  (r.user = u /\ r.movie \in lastOp.movies) =>
                      r.confidence_score.num * 100 * Cardinality(fans(r.movie))
                          = r.confidence_score.den * SumF(given(r.movie), fans(r.movie))

\* a run listed a movie while another movie, not rated by the user, had one
\* selected user's rating of 70 or more and another selected user's rating
\* below 70, and was left out
ContributorsSelectedAndHighWitness ==
    /\ IsGenerationRun
    /\ lastOp.list # <<>>
    /\ \E m \in Movies \ (Range(lastOp.list) \cup RatedMovies(ratings, lastOp.args[1])) :
          /\ \E r \in ratings : r.movie = m /\ r.user \in lastOp.similar /\ r.score >= 70
          /\ \E r \in ratings : r.movie = m /\ r.user \in lastOp.similar /\ r.score < 70

\* C27: every recommendation a run writes has confidence_score >= 0.70
ConfidenceAtLeastSeventy ==
    IsGenerationRun =>
        \A r \in recs :
            (r.user = lastOp.args[1] /\ r.movie \in lastOp.movies) =>
                10 * r.confidence_score.num >= 7 * r.confidence_score.den

\* a run wrote a row with confidence 0.8, the average of 75 and 85
ConfidenceAtLeastSeventyWitness ==
    /\ IsGenerationRun
    /\ \E r \in recs : /\ r.user = lastOp.args[1]
                       /\ r.movie \in lastOp.movies
                       /\ r.recommendation_type = "collaborative"
                       /\ r.confidence_score = Ratio(4, 5)
    /\ \E r \in ratings : r.movie = 5 /\ r.score = 75
    /\ \E r \in ratings : r.movie = 5 /\ r.score = 85

\* C24: a batch run ends having called calculate_user_similarity exactly once on
\* every unordered pair of distinct users that have a rating, and on no other
\* pair; the count it reports is the number of those pairs with a non-null
\* similarity, and every pair with 3 or more co-rated movies then has a stored
\* row whose common_movies_count is the number of co-rated movies
BatchEvaluatesEachPairOnce ==
    (lastOp.op = "calculate_all_user_similarities" /\ lastOp.failed = {}) =>
        LET raters == {u \in Users : \E r \in ratings : r.user = u}
            pairs  == {p \in raters \X raters : p[1] < p[2]}
            co(p)  == {m \in Movies : /\ \E r \in ratings : r.user = p[1] /\ r.movie = m
                                      /\ \E r \in ratings : r.user = p[2] /\ r.movie = m}
        IN  /\ lastOp.status = "ok"
            /\ DOMAIN lastOp.calls = pairs
            /\ \A p \in pairs : lastOp.calls[p] = 1
            /\ lastOp.created = Cardinality({p \in pairs : Cardinality(co(p)) >= 3})
            /\ \A p \in pairs :
                  Cardinality(co(p)) >= 3 =>
                      \E r \in sims : /\ r.user1 = p[1]
                                      /\ r.user2 = p[2]
                                      /\ r.common_movies_count = Cardinality(co(p))

\* a batch over three raters made three calls and stored rows for some of the
\* pairs only
BatchEvaluatesEachPairOnceWitness ==
    /\ lastOp.op = "calculate_all_user_similarities"
    /\ lastOp.failed = {}
    /\ Cardinality(DOMAIN lastOp.calls) = 3
    /\ lastOp.created \in {1, 2}

\* C26: a run of generate_user_recommendations deletes no Recommendation row of
\* any user, leaves every row it does not write as it was, and on a row it
\* updates changes nothing but recommendation_type, confidence_score and reason
GenerationUpdatesOnlyDefaults ==
    [][ lastOp'.op = "generate_user_recommendations" =>
          \A r \in recs :
              \E q \in recs' :
                  /\ q.user = r.user
                  /\ q.movie = r.movie
                  /\ q.created_at = r.created_at
                  /\ q.is_seen = r.is_seen
                  /\ q.is_dismissed = r.is_dismissed
                  /\ q.user_feedback = r.user_feedback
                  /\ q.expires_at = r.expires_at
                  /\ q.predicted_rating = r.predicted_rating
                  /\ q.similar_users = r.similar_users
                  /\ (r.user # lastOp'.args[1] \/ r.movie \notin lastOp'.movies) => q = r
      ]_vars

\* a run, started after time has passed, updated a row that was seen and had
\* feedback: the row is now collaborative, still seen, with its feedback and its
\* older creation time
GenerationUpdatesOnlyDefaultsWitness ==
    /\ IsGenerationRun
    /\ now > 0
    /\ \E r \in recs : /\ r.user = lastOp.args[1]
                       /\ r.movie \in lastOp.movies
                       /\ r.recommendation_type = "collaborative"
                       /\ r.reason = "similar users"
                       /\ r.is_seen
                       /\ r.user_feedback = "helpful"
                       /\ r.similar_users = <<2, 3>>
                       /\ r.created_at < now

\* C28: against one non-empty stored history, calculate_tier never gives the
\* lower of two scores a higher bucket, in the order terrible < bad < mediocre <
\* decent < good < great < superb
TierMonotonic ==
    UserRows(ratings, 1) # {} =>
        LET names == <<"terrible", "bad", "mediocre", "decent", "good", "great",
                       "superb">>
            bucket == [S \in 0..100 |->
                         CHOOSE i \in 1..7 : names[i] = calculate_tier(ratings, 1, S)]
        IN  \A S1, S2 \in 0..100 : S1 <= S2 => bucket[S1] <= bucket[S2]

\* after a save, the stored history puts 20 in terrible, 50 in good and 100 in
\* superb
TierMonotonicWitness ==
    /\ lastOp.op = "rating_save"
    /\ calculate_tier(ratings, 1, 20) = "terrible"
    /\ calculate_tier(ratings, 1, 50) = "good"
    /\ calculate_tier(ratings, 1, 100) = "superb"

\* C23: a run of generate_user_recommendations creates or updates at most 50
\* recommendations, each for a qualifying movie, and no qualifying movie the
\* run left out has a strictly higher average contributed score than a movie
\* it wrote
TopFiftyByAverage ==
    IsGenerationRun =>
        LET u == lastOp.args[1]
            given(m) == {r \in ratings : r.movie = m /\ r.user \in lastOp.similar
                                         /\ r.score >= 70}
            total(m) == SumF([r \in given(m) |-> r.score], given(m))
            qualifying == {m \in {r.movie : r \in ratings} :
                             /\ Cardinality(given(m)) >= 2
                             /\ ~\E r \in ratings : r.user = u /\ r.movie = m}
            written == {m \in lastOp.movies : \E r \in recs : r.user = u /\ r.movie = m}
        IN  /\ Cardinality(lastOp.movies) <= 50
            /\ written \subseteq qualifying
            /\ \A w \in written, q \in qualifying \ written :
                  total(q) * Cardinality(given(w)) <= total(w) * Cardinality(given(q))

\* a run wrote 50 rows and left out a qualifying movie
TopFiftyByAverageWitness ==
    /\ IsGenerationRun
    /\ lastOp.status = "ok"
    /\ Cardinality(lastOp.movies) = 50
    /\ \A m \in lastOp.movies :
          \E r \in recs : r.user = 1 /\ r.movie = m /\ r.recommendation_type = "collaborative"
    /\ \E m \in {r.movie : r \in ratings} \ lastOp.movies :
          Cardinality({r \in ratings : r.movie = m /\ r.user \in lastOp.similar
                                       /\ r.score >= 70}) >= 2

\* C25: when a batch run has completed, every UserSimilarity row in the table
\* is the row of a pair with 3 or more co-rated movies, and holds the count and
\* the score of the ratings as they are
NoStaleSimilarityAfterBatch ==
    (lastOp.op = "calculate_all_user_similarities" /\ lastOp.failed = {}) =>
        \A r \in sims :
            LET co == {m \in Movies :
                         /\ \E q \in ratings : q.user = r.user1 /\ q.movie = m
                         /\ \E q \in ratings : q.user = r.user2 /\ q.movie = m}
            IN  /\ Cardinality(co) >= 3
                /\ r.common_movies_count = Cardinality(co)
                /\ r.similarity_score = Clamp01(SimilarityScore(ratings, r.user1, r.user2))

\* C29: whenever no save() or delete() of a ReviewReaction is under way, each
\* Review's likes_count is the number of its stored 'like' reactions, its
\* dislikes_count the number of its stored 'dislike' reactions, and neither is
\* negative
ReactionCountersConsistent ==
    (\A p \in Procs : requests[p].pc = "idle") =>
        \A rv \in Reviews :
            /\ reviews[rv].likes_count =
                  Cardinality({r \in reactions : r.review = rv /\ r.reaction_type = "like"})
            /\ reviews[rv].dislikes_count =
                  Cardinality({r \in reactions : r.review = rv /\ r.reaction_type = "dislike"})
            /\ reviews[rv].likes_count >= 0
            /\ reviews[rv].dislikes_count >= 0

\* C30: a toggle_comment_like request of user u on comment c creates the
\* reaction asked for when u had none on c, removes u's reaction when it has the
\* polarity asked for, switches it when it has the other polarity, and touches
\* no other row; there is never more than one CommentLike per (user, comment);
\* the user_reaction of the JSON answer is the stored state
CommentLikeToggles ==
    [][ (lastOp'.op = "toggle_comment_like" /\ lastOp'.status \in {"json", "redirect"}) =>
          LET u    == lastOp'.args[1]
              c    == lastOp'.args[2]
              want == (lastOp'.args[3] = "true")
              old  == {r \in likes : r.user = u /\ r.comment = c}
              new  == {r \in likes' : r.user = u /\ r.comment = c}
              row  == [comment |-> c, user |-> u, is_like |-> want]
          IN  /\ old = {} => new = {row}
              /\ (\E r \in old : r.is_like = want) => new = {}
              /\ (\E r \in old : r.is_like # want) => new = {row}
              /\ likes' \ new = likes \ old
              /\ \A r, q \in likes' : (r.user = q.user /\ r.comment = q.comment) => r = q
              /\ lastOp'.status = "json" =>
                    lastOp'.reaction = (IF new = {} THEN "none"
                                        ELSE IF want THEN "like" ELSE "dislike") ]_vars

\* an AJAX request removed a like by asking for it again and reported no
\* reaction, while another user's dislike on the comment stayed
CommentLikeTogglesWitness ==
    /\ lastOp.op = "toggle_comment_like"
    /\ lastOp.status = "json"
    /\ lastOp.args = <<1, 1, "true">>
    /\ lastOp.reaction = "none"
    /\ ~\E r \in likes : r.user = 1 /\ r.comment = 1
    /\ \E r \in likes : r.user = 2 /\ r.comment = 1 /\ ~r.is_like
    /\ \E r \in likes : r.user = 1 /\ r.comment = 2 /\ r.is_like

====
